---- MODULE Spec2Model ----
(***************************************************************************)
(* Bulk import pipeline of the insurance dashboard backend:                *)
(* FileProcessor.process_file (app/services/file_processor.py) driven on   *)
(* one uploaded spreadsheet, with the SQLAlchemy session and the tables it *)
(* writes to; the upload and delete endpoints that save a file and         *)
(* schedule its import (app/routes/file_upload.py); and the create and     *)
(* delete requests on the payments table (app/routes/payments.py).         *)
(*                                                                         *)
(* A spreadsheet is a set of columns and a sequence of rows of cells.      *)
(* Columns are named by their role for the entity being imported: "id" is  *)
(* the business identifier column (payment_id, receipt_number, ...),       *)
(* "num" the entity's first numeric column (amount, premium_amount,        *)
(* claim_amount, total_policies, credit_score) and "date" its required     *)
(* date column (payment_date, receipt_date, ...).                          *)
(***************************************************************************)
EXTENDS Integers, Sequences, FiniteSets, TLC

\* ------------------------------------------------------------------ bounds

\* Longest spreadsheet (data rows) that is imported.
MaxRows == 3

\* Longest spreadsheet the row builders are exercised on.
MaxBuildRows == 2

\* ------------------------------------------------------------- input sets

\* A cell pandas parsed as missing (NaN).
NaN == "NaN"

\* The column sets the imported spreadsheets come with.
ColumnSets == {{"id", "num", "date"}, {"num", "date"}}

\* Representative rows: fully empty, two well-formed rows with different
\* identifiers, a row with text in the numeric cell, a row with an
\* unparseable date, and a well-formed row whose identifier cell is empty.
RowPool ==
    { [id |-> NaN, num |-> NaN, date |-> NaN],
      [id |-> "A", num |-> "5", date |-> "2024-01-01"],
      [id |-> "B", num |-> "5", date |-> "2024-01-01"],
      [id |-> "A", num |-> "abc", date |-> "2024-01-01"],
      [id |-> "B", num |-> "5", date |-> "notadate"],
      [id |-> NaN, num |-> "5", date |-> "2024-01-01"] }

\* The values uuid.uuid4().hex[:8].upper() is drawn from.
UuidPool == {"0A1B2C3D", "9F8E7D6C"}

\* The tags process_file is called with: the seven entities and one other.
DataTypes ==
    {"payments", "receipts", "policies", "claims", "customers", "agents",
     "audit_logs", "invoices"}

SeqsUpTo(S, n) == UNION {[1..k -> S] : k \in 0..n}

RowsOver(cols) == {[c \in cols |-> r[c]] : r \in RowPool}

UnreadableFile == [readable |-> FALSE, cols |-> {}, rows |-> <<>>]

Files ==
    {UnreadableFile} \cup
    UNION {{[readable |-> TRUE, cols |-> cols, rows |-> rows] :
               rows \in SeqsUpTo(RowsOver(cols), MaxRows)} : cols \in ColumnSets}

\* The cells the row builders are exercised on: missing, well-formed, an
\* identifier with surrounding blanks and text in a numeric cell.
IdCells == {NaN, "A", " A "}
NumCells == {NaN, "5", "abc"}
DateCells == {NaN, "2024-01-01"}

CellsOf(c) ==
    CASE c = "id" -> IdCells
      [] c = "num" -> NumCells
      [] c = "date" -> DateCells

BuildColumnSets == SUBSET {"id", "num", "date"} \ {{}}

BuildRows(cols) ==
    {r \in [cols -> IdCells \cup NumCells \cup DateCells] :
        \A c \in cols : r[c] \in CellsOf(c)}

BuildFiles ==
    UNION {{[readable |-> TRUE, cols |-> cols, rows |-> rows] :
               rows \in SeqsUpTo(BuildRows(cols), MaxBuildRows)} :
           cols \in BuildColumnSets}

\* A record of the target table that was persisted before this import.
ExistingRecord ==
    [id |-> "A", num |-> "5", date |-> [kind |-> "parsed", at |-> 0], row |-> 0]

\* ------------------------------------------------------------------ state

VARIABLES
    file,               \* the uploaded spreadsheet at file_path
    data_type,          \* the data-type tag of the request
    db,                 \* persisted records of the target table
    audits,             \* persisted audit_logs entries written by imports
    session,            \* objects added to the Session and not yet committed
    df,                 \* the cleaned DataFrame: <<index label, row>> pairs
    pos,                \* position of df.iterrows()
    processed_records,  \* process_file's local list
    errors,             \* process_file's local list
    clock,              \* datetime.now()
    pc,                 \* where process_file is
    result,             \* the dict process_file returned
    raised,             \* the exception process_file propagated
    auditCalls,         \* number of times _log_import_audit was entered
    commitCalls,        \* number of times the batch db.commit() was called
    auditRaised,        \* the audit write raised and was logged
    disk,               \* the files under settings.UPLOAD_DIRECTORY
    uploads,            \* the upload requests and their background tasks
    wall,               \* datetime.now() to the second, as upload_file reads it
    deletes,            \* number of delete requests for uploaded files served
    tables,             \* the persisted records of every entity table
    crud,               \* the create and delete requests on payments
    imports             \* number of process_file calls made so far

\* The state of the upload endpoints.
web == <<disk, uploads, wall, deletes, tables, crud, imports>>

vars ==
    <<file, data_type, db, audits, session, df, pos, processed_records,
      errors, clock, pc, result, raised, auditCalls, commitCalls, auditRaised,
      disk, uploads, wall, deletes, tables, crud, imports>>

NoResult == [records_imported |-> 0, errors |-> <<>>, status |-> "none"]

\* ------------------------------------------------------- FileProcessor

\* Mutant of model_mapping: the entry of audit_logs is missing.
model_mapping_without_audit_logs ==
    {"payments", "receipts", "policies", "claims", "customers", "agents"}

model_mapping ==
    {"payments", "receipts", "policies", "claims", "customers", "agents",
     "audit_logs"}

\* dropna(how='all'): a row goes when every cell is NaN.
AllEmpty(row) == \A c \in DOMAIN row : row[c] = NaN

\* fillna(''): a missing cell becomes the empty string.
FillNa(row) == [c \in DOMAIN row |-> IF row[c] = NaN THEN "" ELSE row[c]]

RECURSIVE CleanFrom(_, _)
CleanFrom(rows, i) ==
    IF i > Len(rows) THEN <<>>
    ELSE IF AllEmpty(rows[i]) THEN CleanFrom(rows, i + 1)
    ELSE <<[index |-> i - 1, row |-> FillNa(rows[i])]>> \o CleanFrom(rows, i + 1)

\* Mutant of _clean_dataframe: dropna(how='all') left out.
_clean_dataframe_keeps_empty(rows) ==
    [i \in 1..Len(rows) |-> [index |-> i - 1, row |-> FillNa(rows[i])]]

\* Mutant of _clean_dataframe: the index is renumbered after dropna
\* (reset_index(drop=True)).
_clean_dataframe_reset_index(rows) ==
    [k \in 1..Len(CleanFrom(rows, 1)) |->
        [index |-> k - 1, row |-> CleanFrom(rows, 1)[k].row]]

\* Mutant of _clean_dataframe: dropna() with its default how='any', which
\* drops a row as soon as one cell is missing.
_clean_dataframe_drop_any(rows) ==
    SelectSeq([i \in 1..Len(rows) |-> [index |-> i - 1, row |-> FillNa(rows[i])]],
              LAMBDA e : \A c \in DOMAIN e.row : e.row[c] # "")

\* The frame keeps the index labels read_excel gave (0-based positions in
\* the file): dropna does not renumber.
_clean_dataframe(rows) == CleanFrom(rows, 1)

\* Mutant of IdentifierOf: the cell is stripped of surrounding blanks.
IdentifierOfStripped(row, prefix, u) ==
    IF "id" \in DOMAIN row
    THEN (IF row["id"] = " A " THEN "A" ELSE row["id"])
    ELSE prefix \o "-" \o u

\* str(row.get(<identifier>, f"<PREFIX>-{uuid}")): the default is used
\* only when the column is missing; the cell is taken as it is.
IdentifierOf(row, prefix, u) ==
    IF "id" \in DOMAIN row THEN row["id"] ELSE prefix \o "-" \o u

\* float("...") / int("...") / pd.to_datetime("...") on a cell's text.
IsNumeric(cell) == cell \in {"5", "0"}
IsDate(cell) == cell \in {"2024-01-01"}

\* float(row.get(<numeric>, 0)): "" when the cell was missing.
RequiredNumeric(row) ==
    IF "num" \notin DOMAIN row THEN [ok |-> TRUE, v |-> "0"]
    ELSE IF IsNumeric(row["num"]) THEN [ok |-> TRUE, v |-> row["num"]]
    ELSE [ok |-> FALSE, v |-> "ValueError"]

\* int(row.get(<numeric>)) if row.get(<numeric>) else None
OptionalNumeric(row) ==
    IF "num" \notin DOMAIN row \/ row["num"] = "" THEN [ok |-> TRUE, v |-> "None"]
    ELSE IF IsNumeric(row["num"]) THEN [ok |-> TRUE, v |-> row["num"]]
    ELSE [ok |-> FALSE, v |-> "ValueError"]

NoNumeric(row) == [ok |-> TRUE, v |-> "None"]

\* pd.to_datetime(row.get(<date>, current_time)): NaT for "".
RequiredDate(row, current_time) ==
    IF "date" \notin DOMAIN row
    THEN [ok |-> TRUE, v |-> [kind |-> "now", at |-> current_time]]
    ELSE IF row["date"] = "" THEN [ok |-> TRUE, v |-> [kind |-> "NaT", at |-> 0]]
    ELSE IF IsDate(row["date"]) THEN [ok |-> TRUE, v |-> [kind |-> "parsed", at |-> 0]]
    ELSE [ok |-> FALSE, v |-> [kind |-> "ParserError", at |-> 0]]

NoData == [id |-> "", num |-> "None", date |-> [kind |-> "NaT", at |-> 0]]

NumError == "could not convert string to float"
DateError == "Unknown datetime string format"

\* The dict a builder returns, or the exception raised by the first field
\* that fails, in the order the dict literal evaluates them.
Built(id, num, date, numFirst) ==
    IF ~num.ok /\ (numFirst \/ date.ok) THEN [ok |-> FALSE, err |-> NumError, data |-> NoData]
    ELSE IF ~date.ok THEN [ok |-> FALSE, err |-> DateError, data |-> NoData]
    ELSE [ok |-> TRUE, err |-> "", data |-> [id |-> id, num |-> num.v, date |-> date.v]]

\* payment_id, amount, payment_date
_prepare_payment_data(row, current_time, u) ==
    Built(IdentifierOf(row, "PAY", u), RequiredNumeric(row),
          RequiredDate(row, current_time), TRUE)

\* receipt_number, amount, receipt_date
_prepare_receipt_data(row, current_time, u) ==
    Built(IdentifierOf(row, "RCP", u), RequiredNumeric(row),
          RequiredDate(row, current_time), TRUE)

\* policy_number, premium_amount, effective_date
_prepare_policy_data(row, current_time, u) ==
    Built(IdentifierOf(row, "POL", u), RequiredNumeric(row),
          RequiredDate(row, current_time), TRUE)

\* claim_number, claim_amount, incident_date
_prepare_claim_data(row, current_time, u) ==
    Built(IdentifierOf(row, "CLM", u), RequiredNumeric(row),
          RequiredDate(row, current_time), TRUE)

\* customer_id, registration_date, credit_score
_prepare_customer_data(row, current_time, u) ==
    Built(IdentifierOf(row, "CUST", u), OptionalNumeric(row),
          RequiredDate(row, current_time), FALSE)

\* agent_id, hire_date, total_policies
_prepare_agent_data(row, current_time, u) ==
    Built(IdentifierOf(row, "AGT", u), RequiredNumeric(row),
          RequiredDate(row, current_time), FALSE)

\* log_id, event_timestamp
_prepare_audit_log_data(row, current_time, u) ==
    Built(IdentifierOf(row, "LOG", u), NoNumeric(row),
          RequiredDate(row, current_time), TRUE)

\* Mutant of _prepare_record_data: the builders get the time the import
\* started instead of datetime.now().
_prepare_record_data_import_time(row, dt, current_time, u) ==
    CASE dt = "payments" -> _prepare_payment_data(row, 1, u)
      [] dt = "receipts" -> _prepare_receipt_data(row, 1, u)
      [] dt = "policies" -> _prepare_policy_data(row, 1, u)
      [] dt = "claims" -> _prepare_claim_data(row, 1, u)
      [] dt = "customers" -> _prepare_customer_data(row, 1, u)
      [] dt = "agents" -> _prepare_agent_data(row, 1, u)
      [] dt = "audit_logs" -> _prepare_audit_log_data(row, 1, u)
      [] OTHER -> [ok |-> FALSE, err |-> "Unsupported data type", data |-> NoData]

\* current_time = datetime.now(), then the dispatch on the tag.
_prepare_record_data(row, dt, current_time, u) ==
    CASE dt = "payments" -> _prepare_payment_data(row, current_time, u)
      [] dt = "receipts" -> _prepare_receipt_data(row, current_time, u)
      [] dt = "policies" -> _prepare_policy_data(row, current_time, u)
      [] dt = "claims" -> _prepare_claim_data(row, current_time, u)
      [] dt = "customers" -> _prepare_customer_data(row, current_time, u)
      [] dt = "agents" -> _prepare_agent_data(row, current_time, u)
      [] dt = "audit_logs" -> _prepare_audit_log_data(row, current_time, u)
      [] OTHER -> [ok |-> FALSE, err |-> "Unsupported data type", data |-> NoData]

\* ------------------------------------------------------------ the session

\* The unique index on the business identifier rejects the flush when two
\* pending records, or a pending and a persisted one, share an identifier.
UniqueViolation(table, pending) ==
    \/ \E i, j \in 1..Len(pending) : i # j /\ pending[i].id = pending[j].id
    \/ \E i \in 1..Len(pending) : \E r \in table : r.id = pending[i].id

Range(s) == {s[i] : i \in 1..Len(s)}

\* ---------------------------------------------------------------- Init

\* process_file called on its own: no upload endpoint is involved.
NoUploads ==
    /\ disk = {}
    /\ uploads = <<>>
    /\ wall = 0
    /\ deletes = 0
    /\ tables = <<>>
    /\ crud = <<>>
    /\ imports = 0

Init ==
    /\ file \in Files
    /\ data_type \in DataTypes
    /\ db \in {{}, {ExistingRecord}}
    /\ audits = <<>>
    /\ session = <<>>
    /\ df = <<>>
    /\ pos = 0
    /\ processed_records = <<>>
    /\ errors = <<>>
    /\ clock = 1
    /\ pc = "read"
    /\ result = NoResult
    /\ raised = "none"
    /\ auditCalls = 0
    /\ commitCalls = 0
    /\ auditRaised = FALSE
    /\ NoUploads

\* ------------------------------------------------------- process_file

\* except Exception: db.rollback(); raise
Propagate(e) ==
    /\ session' = <<>>
    /\ raised' = e
    /\ pc' = "done"

\* Mutant of ReadExcelFails: the failure is reported as a returned result.
ReadExcelFailsReturnsFailed ==
    /\ pc = "read"
    /\ ~file.readable
    /\ result' = [records_imported |-> 0, errors |-> <<>>, status |-> "failed"]
    /\ pc' = "done"
    /\ UNCHANGED <<file, data_type, db, audits, session, df, pos,
                   processed_records, errors, clock, raised, auditCalls, commitCalls, auditRaised,
                   web>>

\* Mutant of ReadExcelFails: an unreadable file is taken as an empty frame.
ReadExcelFailsAsEmptyFrame ==
    /\ pc = "read"
    /\ ~file.readable
    /\ df' = <<>>
    /\ pc' = "resolve"
    /\ UNCHANGED <<file, data_type, db, audits, session, pos,
                   processed_records, errors, clock, result, raised, auditCalls, commitCalls, auditRaised,
                   web>>

\* pd.read_excel raises on a file it cannot parse.
ReadExcelFails ==
    /\ pc = "read"
    /\ ~file.readable
    /\ Propagate("FormatError")
    /\ UNCHANGED <<file, data_type, db, audits, df, pos, processed_records,
                   errors, clock, result, auditCalls, commitCalls, auditRaised,
                   web>>

ReadExcel ==
    /\ pc = "read"
    /\ file.readable
    /\ df' = _clean_dataframe(file.rows)
    /\ pc' = "resolve"
    /\ UNCHANGED <<file, data_type, db, audits, session, pos,
                   processed_records, errors, clock, result, raised, auditCalls, commitCalls, auditRaised,
                   web>>

\* Mutant of ResolveFails: the lookup result is not checked, so the tag is
\* only rejected row by row in _prepare_record_data.
ResolveFailsDeferred ==
    /\ pc = "resolve"
    /\ data_type \notin model_mapping
    /\ processed_records' = <<>>
    /\ errors' = <<>>
    /\ pos' = 1
    /\ pc' = "loop"
    /\ UNCHANGED <<file, data_type, db, audits, session, df, clock, result,
                   raised, auditCalls, commitCalls, auditRaised,
                   web>>

\* model_class is None: raise ValueError, then rollback and re-raise.
ResolveFails ==
    /\ pc = "resolve"
    /\ data_type \notin model_mapping
    /\ Propagate("ValueError")
    /\ UNCHANGED <<file, data_type, db, audits, df, pos, processed_records,
                   errors, clock, result, auditCalls, commitCalls, auditRaised,
                   web>>

Resolve ==
    /\ pc = "resolve"
    /\ data_type \in model_mapping
    /\ processed_records' = <<>>
    /\ errors' = <<>>
    /\ pos' = 1
    /\ pc' = "loop"
    /\ UNCHANGED <<file, data_type, db, audits, session, df, clock, result,
                   raised, auditCalls, commitCalls, auditRaised,
                   web>>

\* Mutant of RowBuilt: every record is committed as soon as it is built.
RowBuiltCommitsEach ==
    /\ pc = "loop"
    /\ pos <= Len(df)
    /\ \E u \in UuidPool :
         LET b == _prepare_record_data(df[pos].row, data_type, clock, u)
             record == [id |-> b.data.id, num |-> b.data.num,
                        date |-> b.data.date, row |-> df[pos].index + 1]
         IN /\ b.ok
            /\ db' = db \cup {record}
            /\ processed_records' = Append(processed_records, record)
    /\ clock' = clock + 1
    /\ pos' = pos + 1
    /\ UNCHANGED <<file, data_type, audits, session, df, errors, pc, result,
                   raised, auditCalls, commitCalls, auditRaised,
                   web>>

\* One iteration whose row builds: the record is added to the session.
RowBuilt ==
    /\ pc = "loop"
    /\ pos <= Len(df)
    /\ \E u \in UuidPool :
         LET b == _prepare_record_data(df[pos].row, data_type, clock, u)
             record == [id |-> b.data.id, num |-> b.data.num,
                        date |-> b.data.date, row |-> df[pos].index + 1]
         IN /\ b.ok
            /\ session' = Append(session, record)
            /\ processed_records' = Append(processed_records, record)
    /\ clock' = clock + 1
    /\ pos' = pos + 1
    /\ UNCHANGED <<file, data_type, db, audits, df, errors, pc, result,
                   raised, auditCalls, commitCalls, auditRaised,
                   web>>

\* Mutant of RowFailed: the first row that does not build ends the loop.
RowFailedBreaks ==
    /\ pc = "loop"
    /\ pos <= Len(df)
    /\ \E u \in UuidPool :
         LET b == _prepare_record_data(df[pos].row, data_type, clock, u)
         IN /\ ~b.ok
            /\ errors' = Append(errors, [row |-> df[pos].index + 1, msg |-> b.err])
    /\ clock' = clock + 1
    /\ pos' = Len(df) + 1
    /\ UNCHANGED <<file, data_type, db, audits, session, df,
                   processed_records, pc, result, raised, auditCalls, commitCalls, auditRaised,
                   web>>

\* Mutant of RowFailed: the record is added to the session before the field
\* that fails is coerced.
RowFailedAfterAdd ==
    /\ pc = "loop"
    /\ pos <= Len(df)
    /\ \E u \in UuidPool :
         LET b == _prepare_record_data(df[pos].row, data_type, clock, u)
         IN /\ ~b.ok
            /\ errors' = Append(errors, [row |-> df[pos].index + 1, msg |-> b.err])
            /\ session' = Append(session, [id |-> b.data.id, num |-> b.data.num,
                                           date |-> b.data.date, row |-> df[pos].index + 1])
    /\ clock' = clock + 1
    /\ pos' = pos + 1
    /\ UNCHANGED <<file, data_type, db, audits, df,
                   processed_records, pc, result, raised, auditCalls, commitCalls, auditRaised,
                   web>>

\* One iteration whose row does not build: a "Row N: ..." entry is kept and
\* the loop goes on.
RowFailed ==
    /\ pc = "loop"
    /\ pos <= Len(df)
    /\ \E u \in UuidPool :
         LET b == _prepare_record_data(df[pos].row, data_type, clock, u)
         IN /\ ~b.ok
            /\ errors' = Append(errors, [row |-> df[pos].index + 1, msg |-> b.err])
    /\ clock' = clock + 1
    /\ pos' = pos + 1
    /\ UNCHANGED <<file, data_type, db, audits, session, df,
                   processed_records, pc, result, raised, auditCalls, commitCalls, auditRaised,
                   web>>

LoopEnds ==
    /\ pc = "loop"
    /\ pos > Len(df)
    /\ pc' = "commit"
    /\ UNCHANGED <<file, data_type, db, audits, session, df, pos,
                   processed_records, errors, clock, result, raised, auditCalls, commitCalls, auditRaised,
                   web>>

\* Mutant of CommitSkipped: db.commit() is called whether or not anything
\* was staged.
CommitSkippedCommitsAnyway ==
    /\ pc = "commit"
    /\ processed_records = <<>>
    /\ commitCalls' = commitCalls + 1
    /\ pc' = "audit"
    /\ UNCHANGED <<file, data_type, db, audits, session, df, pos,
                   processed_records, errors, clock, result, raised,
                   auditCalls, auditRaised,
                   web>>

\* if processed_records: (false)
CommitSkipped ==
    /\ pc = "commit"
    /\ processed_records = <<>>
    /\ pc' = "audit"
    /\ UNCHANGED <<file, data_type, db, audits, session, df, pos,
                   processed_records, errors, clock, result, raised, auditCalls, commitCalls, auditRaised,
                   web>>

\* db.commit() flushes the pending records in one transaction.
Commit ==
    /\ pc = "commit"
    /\ processed_records # <<>>
    /\ ~UniqueViolation(db, session)
    /\ db' = db \cup Range(session)
    /\ session' = <<>>
    /\ pc' = "audit"
    /\ commitCalls' = commitCalls + 1
    /\ UNCHANGED <<file, data_type, audits, df, pos, processed_records,
                   errors, clock, result, raised, auditCalls, auditRaised,
                   web>>

\* Mutant of CommitFails: the exception of db.commit() is caught and the
\* import goes on to the audit entry.
CommitFailsSwallowed ==
    /\ pc = "commit"
    /\ processed_records # <<>>
    /\ session' = <<>>
    /\ pc' = "audit"
    /\ commitCalls' = commitCalls + 1
    /\ UNCHANGED <<file, data_type, db, audits, df, pos, processed_records,
                   errors, clock, result, raised, auditCalls, auditRaised,
                   web>>

\* Mutant of CommitFails: records are committed one by one, so the ones
\* before the failure stay.
CommitFailsKeepsPrefix ==
    /\ pc = "commit"
    /\ processed_records # <<>>
    /\ db' = db \cup {session[1]}
    /\ Propagate("StorageError")
    /\ commitCalls' = commitCalls + 1
    /\ UNCHANGED <<file, data_type, audits, df, pos, processed_records,
                   errors, clock, result, auditCalls, auditRaised,
                   web>>

\* db.commit() raises: a unique index rejects the flush, or the database
\* fails for a reason of its own. The transaction leaves nothing behind.
CommitFails ==
    /\ pc = "commit"
    /\ processed_records # <<>>
    /\ Propagate("StorageError")
    /\ commitCalls' = commitCalls + 1
    /\ UNCHANGED <<file, data_type, db, audits, df, pos, processed_records,
                   errors, clock, result, auditCalls, auditRaised,
                   web>>

\* Mutant of AuditEntry: severity and status follow the imported count.
AuditEntryByImported(dt, records_imported, error_count) ==
    [action |-> "FILE_IMPORT",
     resource_type |-> dt,
     severity |-> IF records_imported > 0 THEN "info" ELSE "warning",
     status |-> IF records_imported > 0 THEN "success" ELSE "warning",
     records_imported |-> records_imported,
     error_count |-> error_count]

\* The AuditLog object _log_import_audit builds.
AuditEntry(dt, records_imported, error_count) ==
    [action |-> "FILE_IMPORT",
     resource_type |-> dt,
     severity |-> IF error_count = 0 THEN "info" ELSE "warning",
     status |-> IF error_count = 0 THEN "success" ELSE "warning",
     records_imported |-> records_imported,
     error_count |-> error_count]

\* Mutant of AuditWritten: an import that attempted no row writes no entry.
AuditWrittenSkipsEmpty ==
    /\ pc = "audit"
    /\ auditCalls' = IF df = <<>> THEN auditCalls ELSE auditCalls + 1
    /\ audits' = IF df = <<>> THEN audits
                 ELSE Append(audits, AuditEntry(data_type, Len(processed_records), Len(errors)))
    /\ db' = db \cup Range(session)
    /\ session' = <<>>
    /\ pc' = "return"
    /\ UNCHANGED <<file, data_type, df, pos, processed_records, errors,
                   clock, result, raised, commitCalls, auditRaised,
                   web>>

\* _log_import_audit: db.add(audit_log); db.commit()
AuditWritten ==
    /\ pc = "audit"
    /\ auditCalls' = auditCalls + 1
    /\ audits' = Append(audits, AuditEntry(data_type, Len(processed_records), Len(errors)))
    /\ db' = db \cup Range(session)
    /\ session' = <<>>
    /\ pc' = "return"
    /\ UNCHANGED <<file, data_type, df, pos, processed_records, errors,
                   clock, result, raised, commitCalls, auditRaised,
                   web>>

\* Mutant of AuditFails: the exception of the audit write is not caught.
AuditFailsEscalates ==
    /\ pc = "audit"
    /\ auditCalls' = auditCalls + 1
    /\ Propagate("StorageError")
    /\ auditRaised' = TRUE
    /\ UNCHANGED <<file, data_type, db, audits, df, pos, processed_records,
                   errors, clock, result, commitCalls,
                   web>>

\* Mutant of AuditFails: the failed audit write undoes the batch.
AuditFailsUndoesBatch ==
    /\ pc = "audit"
    /\ auditCalls' = auditCalls + 1
    /\ db' = db \ Range(processed_records)
    /\ pc' = "return"
    /\ auditRaised' = TRUE
    /\ UNCHANGED <<file, data_type, audits, session, df, pos,
                   processed_records, errors, clock, result, raised, commitCalls,
                   web>>

\* _log_import_audit: the commit raises; the exception is logged.
AuditFails ==
    /\ pc = "audit"
    /\ auditCalls' = auditCalls + 1
    /\ pc' = "return"
    /\ auditRaised' = TRUE
    /\ UNCHANGED <<file, data_type, db, audits, session, df, pos,
                   processed_records, errors, clock, result, raised, commitCalls,
                   web>>

\* Mutant of ImportResult: the status follows the imported count.
ImportResultByCount(processed, errs) ==
    [records_imported |-> Len(processed),
     errors |-> errs,
     status |-> IF Len(processed) > 0 THEN "completed" ELSE "completed_with_errors"]

\* The dict process_file returns.
ImportResult(processed, errs) ==
    [records_imported |-> Len(processed),
     errors |-> errs,
     status |-> IF errs = <<>> THEN "completed" ELSE "completed_with_errors"]

Return ==
    /\ pc = "return"
    /\ result' = ImportResult(processed_records, errors)
    /\ pc' = "done"
    /\ UNCHANGED <<file, data_type, db, audits, session, df, pos,
                   processed_records, errors, clock, raised, auditCalls, commitCalls, auditRaised,
                   web>>

Next ==
    \/ ReadExcelFails
    \/ ReadExcel
    \/ ResolveFails
    \/ Resolve
    \/ RowBuilt
    \/ RowFailed
    \/ LoopEnds
    \/ CommitSkipped
    \/ Commit
    \/ CommitFails
    \/ AuditWritten
    \/ AuditFails
    \/ Return

Spec == Init /\ [][Next]_vars

\* ------------------------------------------------------ the row builders

\* The row loop of process_file on spreadsheets that cover every column set
\* and every kind of cell, for each of the seven entities.
InitBuild ==
    /\ file \in BuildFiles
    /\ data_type \in model_mapping
    /\ db = {}
    /\ audits = <<>>
    /\ session = <<>>
    /\ df = <<>>
    /\ pos = 0
    /\ processed_records = <<>>
    /\ errors = <<>>
    /\ clock = 1
    /\ pc = "read"
    /\ result = NoResult
    /\ raised = "none"
    /\ auditCalls = 0
    /\ commitCalls = 0
    /\ auditRaised = FALSE
    /\ NoUploads

NextBuild ==
    \/ ReadExcel
    \/ Resolve
    \/ RowBuilt
    \/ RowFailed
    \/ LoopEnds

SpecBuild == InitBuild /\ [][NextBuild]_vars

\* ------------------------------------------------- the upload endpoints

\* Last second the wall clock reaches.
MaxSeconds == 2

\* Number of delete requests for uploaded files that are served.
MaxDeletes == 1

\* The upload requests.
Requests == {"r1", "r2"}

\* allowed_types of upload_file.
allowed_types ==
    {"payments", "receipts", "policies", "claims", "customers", "agents",
     "audit_logs"}

\* The tags and client file names uploads come with.
UploadTypes == allowed_types \cup {"invoices"}
UploadNames == {"a.xlsx", "a.txt"}

\* The tags the second request comes with: one that is accepted, so that
\* the two requests have the same tag or different ones, and the other one.
SecondTypes == {"payments", "invoices"}

\* file.filename.lower().endswith(('.xlsx', '.xls'))
HasSheetExtension(name) == name \in {"a.xlsx"}

\* The contents uploads come with: two spreadsheets and a body larger than
\* settings.MAX_FILE_SIZE.
SheetOne ==
    [readable |-> TRUE, cols |-> {"id", "num", "date"},
     rows |-> <<[id |-> "A", num |-> "5", date |-> "2024-01-01"],
                [id |-> "B", num |-> "abc", date |-> "2024-01-01"]>>]

SheetTwo ==
    [readable |-> TRUE, cols |-> {"id", "num", "date"},
     rows |-> <<[id |-> "B", num |-> "abc", date |-> "2024-01-01"]>>]

UploadContents ==
    {[sheet |-> SheetOne, too_large |-> FALSE],
     [sheet |-> SheetTwo, too_large |-> FALSE],
     [sheet |-> UnreadableFile, too_large |-> TRUE]}

NoPath == [dir |-> "", ts |-> 0, name |-> ""]
NoResponse == [code |-> "none", status |-> "none", records_imported |-> 0]
NoContent == [sheet |-> UnreadableFile, too_large |-> FALSE]
NoOutcome == [raised |-> "none", result |-> NoResult]

\* What an import found at its file_path: nothing, or these bytes.
Absent == [found |-> FALSE, content |-> NoContent]
Found(content) == [found |-> TRUE, content |-> content]

\* The variables of one process_file call.
importVars ==
    <<file, data_type, db, audits, session, df, pos, processed_records,
      errors, clock, pc, result, raised, auditCalls, commitCalls, auditRaised>>

InitUpload ==
    /\ file = UnreadableFile
    /\ data_type = ""
    /\ db = {}
    /\ audits = <<>>
    /\ session = <<>>
    /\ df = <<>>
    /\ pos = 0
    /\ processed_records = <<>>
    /\ errors = <<>>
    /\ clock = 1
    /\ pc = "idle"
    /\ result = NoResult
    /\ raised = "none"
    /\ auditCalls = 0
    /\ commitCalls = 0
    /\ auditRaised = FALSE
    /\ disk = {}
    /\ uploads \in [Requests ->
                      [data_type : UploadTypes, filename : UploadNames,
                       content : UploadContents, pc : {"received"},
                       path : {NoPath}, response : {NoResponse},
                       scheduled : {0}, task : {"none"}, read : {Absent},
                       outcome : {NoOutcome}]]
    /\ uploads["r2"].data_type \in SecondTypes
    /\ wall = 1
    /\ deletes = 0
    /\ tables = [t \in allowed_types |-> {}]
    /\ crud = <<>>
    /\ imports = 0

\* The three checks of upload_file, in their order.
Rejection(u) ==
    IF u.data_type \notin allowed_types THEN "400"
    ELSE IF ~HasSheetExtension(u.filename) THEN "400"
    ELSE IF u.content.too_large THEN "413"
    ELSE "none"

\* os.path.join(upload_dir, f"{data_type}_{timestamp}_{file.filename}")
FilePath(u, timestamp) == [dir |-> u.data_type, ts |-> timestamp, name |-> u.filename]

\* upload_file: one of the checks raises HTTPException.
UploadRejected ==
    \E q \in Requests :
        /\ pc = "idle"
        /\ uploads[q].pc = "received"
        /\ Rejection(uploads[q]) # "none"
        /\ uploads' = [uploads EXCEPT
                         ![q].pc = "rejected",
                         ![q].response = [code |-> Rejection(uploads[q]),
                                          status |-> "error",
                                          records_imported |-> 0]]
        /\ UNCHANGED <<importVars, disk, wall, deletes, tables, crud, imports>>

\* upload_file: open(file_path, "wb") and write: the file at the path is
\* created, or replaced when there is one.
UploadSaved ==
    \E q \in Requests :
        LET path == FilePath(uploads[q], wall)
        IN /\ pc = "idle"
           /\ uploads[q].pc = "received"
           /\ Rejection(uploads[q]) = "none"
           /\ disk' = {e \in disk : e.path # path} \cup
                        {[path |-> path, content |-> uploads[q].content]}
           /\ uploads' = [uploads EXCEPT ![q].pc = "saved", ![q].path = path]
           /\ UNCHANGED <<importVars, wall, deletes, tables, crud, imports>>

\* upload_file: makedirs or open raises; the handler answers 500.
UploadSaveFails ==
    \E q \in Requests :
        /\ pc = "idle"
        /\ uploads[q].pc = "received"
        /\ Rejection(uploads[q]) = "none"
        /\ uploads' = [uploads EXCEPT
                         ![q].pc = "failed",
                         ![q].response = [code |-> "500", status |-> "error",
                                          records_imported |-> 0]]
        /\ UNCHANGED <<importVars, disk, wall, deletes, tables, crud, imports>>

\* upload_file: background_tasks.add_task(process_file, ...) and the
\* FileUploadResponse that is returned.
UploadScheduled ==
    \E q \in Requests :
        /\ pc = "idle"
        /\ uploads[q].pc = "saved"
        /\ uploads' = [uploads EXCEPT
                         ![q].pc = "scheduled",
                         ![q].scheduled = @ + 1,
                         ![q].task = "scheduled",
                         ![q].response = [code |-> "200", status |-> "processing",
                                          records_imported |-> 0]]
        /\ UNCHANGED <<importVars, disk, wall, deletes, tables, crud, imports>>

\* The response is sent to the caller; the background tasks of the request
\* run after it.
ResponseSent ==
    \E q \in Requests :
        /\ pc = "idle"
        /\ uploads[q].pc = "scheduled"
        /\ uploads' = [uploads EXCEPT ![q].pc = "responded"]
        /\ UNCHANGED <<importVars, disk, wall, deletes, tables, crud, imports>>

\* The records of a table, as they are before an import.
Persisted(table) == {[r EXCEPT !.row = 0] : r \in table}

\* The background task calls process_file(file_path, data_type, db): the
\* call works on whatever is at file_path now, and runs to its end without
\* yielding to the event loop.
StartImport ==
    \E q \in Requests :
        LET here == {e \in disk : e.path = uploads[q].path}
        IN /\ pc = "idle"
           /\ uploads[q].pc = "responded"
           /\ uploads[q].task = "scheduled"
           /\ file' = IF here = {} THEN UnreadableFile
                      ELSE (CHOOSE e \in here : TRUE).content.sheet
           /\ uploads' = [uploads EXCEPT
                            ![q].task = "running",
                            ![q].read = IF here = {} THEN Absent
                                        ELSE Found((CHOOSE e \in here : TRUE).content)]
           /\ data_type' = uploads[q].data_type
           /\ db' = Persisted(tables[uploads[q].data_type])
           /\ session' = <<>>
           /\ df' = <<>>
           /\ pos' = 0
           /\ processed_records' = <<>>
           /\ errors' = <<>>
           /\ clock' = 1
           /\ pc' = "read"
           /\ result' = NoResult
           /\ raised' = "none"
           /\ auditCalls' = 0
           /\ commitCalls' = 0
           /\ auditRaised' = FALSE
           /\ UNCHANGED <<audits, disk, wall, deletes, crud, imports>>
           /\ UNCHANGED tables

\* The call is over: its arguments and locals are gone.
CallOver ==
    /\ file' = UnreadableFile
    /\ data_type' = ""
    /\ db' = {}
    /\ session' = <<>>
    /\ df' = <<>>
    /\ pos' = 0
    /\ processed_records' = <<>>
    /\ errors' = <<>>
    /\ clock' = 1
    /\ pc' = "idle"
    /\ result' = NoResult
    /\ raised' = "none"
    /\ auditCalls' = 0
    /\ commitCalls' = 0
    /\ auditRaised' = FALSE

\* Mutant of ImportEnds: the result of the import is put into the response
\* of the upload.
ImportEndsReportsBack ==
    \E q \in Requests :
        /\ pc = "done"
        /\ uploads[q].task = "running"
        /\ uploads' = [uploads EXCEPT
                         ![q].task = "finished",
                         ![q].outcome = [raised |-> raised, result |-> result],
                         ![q].response = [code |-> "200", status |-> result.status,
                                          records_imported |-> result.records_imported]]
        /\ tables' = [tables EXCEPT ![data_type] = db]
        /\ CallOver
        /\ UNCHANGED <<audits, disk, wall, deletes, crud, imports>>

\* process_file returned or raised: the background task is over; what it
\* returned or raised goes nowhere.
ImportEnds ==
    \E q \in Requests :
        /\ pc = "done"
        /\ uploads[q].task = "running"
        /\ uploads' = [uploads EXCEPT
                         ![q].task = "finished",
                         ![q].outcome = [raised |-> raised, result |-> result]]
        /\ tables' = [tables EXCEPT ![data_type] = db]
        /\ CallOver
        /\ UNCHANGED <<audits, disk, wall, deletes, crud, imports>>

\* A second passes.
WallTick ==
    /\ pc = "idle"
    /\ wall < MaxSeconds
    /\ wall' = wall + 1
    /\ UNCHANGED <<importVars, disk, uploads, deletes, tables, crud, imports>>

\* delete_uploaded_file on a path that exists: os.remove.
DeleteUploadedFile ==
    \E e \in disk :
        /\ pc = "idle"
        /\ deletes < MaxDeletes
        /\ disk' = disk \ {e}
        /\ deletes' = deletes + 1
        /\ UNCHANGED <<importVars, uploads, wall, tables, crud, imports>>

\* delete_uploaded_file on a path that does not exist (the caller names
\* any file it likes): 404.
DeleteUploadedFileNotFound ==
    /\ pc = "idle"
    /\ deletes < MaxDeletes
    /\ deletes' = deletes + 1
    /\ UNCHANGED <<importVars, disk, uploads, wall, tables, crud, imports>>

\* The endpoints and the imports they schedule, on one event loop.
\* ResolveFails is left out: an upload that was accepted never enables it
\* (C28).
NextUpload ==
    \/ UploadRejected
    \/ UploadSaved
    \/ UploadSaveFails
    \/ UploadScheduled
    \/ ResponseSent
    \/ StartImport
    \/ ImportEnds
    \/ WallTick
    \/ DeleteUploadedFile
    \/ DeleteUploadedFileNotFound
    \/ ReadExcelFails
    \/ ReadExcel
    \/ Resolve
    \/ RowBuilt
    \/ RowFailed
    \/ LoopEnds
    \/ CommitSkipped
    \/ Commit
    \/ CommitFails
    \/ AuditWritten
    \/ AuditFails
    \/ Return

SpecUpload == InitUpload /\ [][NextUpload]_vars

\* ------------------------------------------- the payments table

\* Number of process_file calls on the payments table.
MaxImports == 2

\* The create and delete requests on /payments.
CrudRequests == {"c1", "c2"}

\* The payment_id values requests and spreadsheets come with.
PaymentIds == {"A", "B"}

StoreRows ==
    {[id |-> i, num |-> "5", date |-> "2024-01-01"] : i \in PaymentIds} \cup
    {[id |-> "B", num |-> "abc", date |-> "2024-01-01"]}

\* The spreadsheets imported into the payments table: one row, or a row
\* that builds and a second one, with identifiers that differ or repeat, and
\* a file that does not parse.
StoreFiles ==
    {UnreadableFile} \cup
    {[readable |-> TRUE, cols |-> {"id", "num", "date"}, rows |-> rows] :
        rows \in {<<r>> : r \in StoreRows} \cup
                 {<<r1, r2>> : r1 \in {r \in StoreRows : IsNumeric(r.num)},
                               r2 \in StoreRows}}

\* Payment(**payment_data.model_dump())
CreatedPayment(payment_id) ==
    [id |-> payment_id, num |-> "5", date |-> [kind |-> "parsed", at |-> 0], row |-> 0]

InitStore ==
    /\ file \in StoreFiles
    /\ data_type = "payments"
    /\ db \in {{}, {ExistingRecord}}
    /\ audits = <<>>
    /\ session = <<>>
    /\ df = <<>>
    /\ pos = 0
    /\ processed_records = <<>>
    /\ errors = <<>>
    /\ clock = 1
    /\ pc = "read"
    /\ result = NoResult
    /\ raised = "none"
    /\ auditCalls = 0
    /\ commitCalls = 0
    /\ auditRaised = FALSE
    /\ disk = {}
    /\ uploads = <<>>
    /\ wall = 0
    /\ deletes = 0
    /\ tables = <<>>
    /\ crud \in [CrudRequests ->
                   [op : {"create", "delete"}, payment_id : PaymentIds,
                    pc : {"received"}, response : {"none"}]]
    /\ imports = 1

\* The next spreadsheet is imported into the same table.
NextImport ==
    /\ pc = "done"
    /\ imports < MaxImports
    /\ imports' = imports + 1
    /\ file' \in StoreFiles
    /\ db' = Persisted(db)
    /\ session' = <<>>
    /\ df' = <<>>
    /\ pos' = 0
    /\ processed_records' = <<>>
    /\ errors' = <<>>
    /\ clock' = 1
    /\ pc' = "read"
    /\ result' = NoResult
    /\ raised' = "none"
    /\ auditCalls' = 0
    /\ commitCalls' = 0
    /\ auditRaised' = FALSE
    /\ UNCHANGED <<data_type, audits, disk, uploads, wall, deletes, tables, crud>>

\* create_payment: the query finds a payment with this payment_id: 400.
CreateRejected ==
    \E c \in CrudRequests :
        /\ crud[c].op = "create"
        /\ crud[c].pc = "received"
        /\ \E r \in db : r.id = crud[c].payment_id
        /\ crud' = [crud EXCEPT ![c].pc = "rejected", ![c].response = "400"]
        /\ UNCHANGED <<importVars, disk, uploads, wall, deletes, tables, imports>>

\* create_payment: the query finds none; the payment is added to the session.
CreateChecked ==
    \E c \in CrudRequests :
        /\ crud[c].op = "create"
        /\ crud[c].pc = "received"
        /\ ~ \E r \in db : r.id = crud[c].payment_id
        /\ crud' = [crud EXCEPT ![c].pc = "added"]
        /\ UNCHANGED <<importVars, disk, uploads, wall, deletes, tables, imports>>

\* Mutant of CreateCommitted: the table has no unique index on payment_id.
CreateCommittedWithoutIndex ==
    \E c \in CrudRequests :
        /\ crud[c].op = "create"
        /\ crud[c].pc = "added"
        /\ db' = db \cup {CreatedPayment(crud[c].payment_id)}
        /\ crud' = [crud EXCEPT ![c].pc = "created", ![c].response = "201"]
        /\ UNCHANGED <<file, data_type, audits, session, df, pos,
                       processed_records, errors, clock, pc, result, raised,
                       auditCalls, commitCalls, auditRaised,
                       disk, uploads, wall, deletes, tables, imports>>

\* create_payment: db.commit() inserts the payment; the unique index lets
\* it in when no persisted payment has its payment_id.
CreateCommitted ==
    \E c \in CrudRequests :
        /\ crud[c].op = "create"
        /\ crud[c].pc = "added"
        /\ ~ \E r \in db : r.id = crud[c].payment_id
        /\ db' = db \cup {CreatedPayment(crud[c].payment_id)}
        /\ crud' = [crud EXCEPT ![c].pc = "created", ![c].response = "201"]
        /\ UNCHANGED <<file, data_type, audits, session, df, pos,
                       processed_records, errors, clock, pc, result, raised,
                       auditCalls, commitCalls, auditRaised,
                       disk, uploads, wall, deletes, tables, imports>>

\* create_payment: db.commit() raises (the unique index, when a payment with
\* this payment_id was persisted since the query, or the database itself):
\* rollback and 500.
CreateCommitFails ==
    \E c \in CrudRequests :
        /\ crud[c].op = "create"
        /\ crud[c].pc = "added"
        /\ crud' = [crud EXCEPT ![c].pc = "failed", ![c].response = "500"]
        /\ UNCHANGED <<importVars, disk, uploads, wall, deletes, tables, imports>>

\* delete_payment: the payment is found, deleted and the delete committed.
DeletePayment ==
    \E c \in CrudRequests :
        /\ crud[c].op = "delete"
        /\ crud[c].pc = "received"
        /\ \E r \in db : r.id = crud[c].payment_id
        /\ db' = {r \in db : r.id # crud[c].payment_id}
        /\ crud' = [crud EXCEPT ![c].pc = "deleted", ![c].response = "204"]
        /\ UNCHANGED <<file, data_type, audits, session, df, pos,
                       processed_records, errors, clock, pc, result, raised,
                       auditCalls, commitCalls, auditRaised,
                       disk, uploads, wall, deletes, tables, imports>>

\* delete_payment: no payment has this payment_id: 404.
DeletePaymentNotFound ==
    \E c \in CrudRequests :
        /\ crud[c].op = "delete"
        /\ crud[c].pc = "received"
        /\ ~ \E r \in db : r.id = crud[c].payment_id
        /\ crud' = [crud EXCEPT ![c].pc = "rejected", ![c].response = "404"]
        /\ UNCHANGED <<importVars, disk, uploads, wall, deletes, tables, imports>>

\* Imports of payments and requests on /payments, in any interleaving.
NextStore ==
    \/ ReadExcelFails
    \/ ReadExcel
    \/ Resolve
    \/ RowBuilt
    \/ RowFailed
    \/ LoopEnds
    \/ CommitSkipped
    \/ Commit
    \/ CommitFails
    \/ AuditWritten
    \/ AuditFails
    \/ Return
    \/ NextImport
    \/ CreateRejected
    \/ CreateChecked
    \/ CreateCommitted
    \/ CreateCommitFails
    \/ DeletePayment
    \/ DeletePaymentNotFound

SpecStore == InitStore /\ [][NextStore]_vars

\* ------------------------------------------------------------ properties

\* The records this import persisted (row 0 marks what was there before).
Imported == {r \in db : r.row # 0}

Returned == result # NoResult

\* Rows of the spreadsheet that are not fully empty.
RemainingRows == {i \in 1..Len(file.rows) : \E c \in file.cols : file.rows[i][c] # NaN}

\* The 1-based label process_file cites for the k-th row of the frame.
Label(k) == df[k].index + 1

Buildable(k) == \A u \in UuidPool : _prepare_record_data(df[k].row, data_type, 0, u).ok

Staged(k) == \E i \in 1..Len(processed_records) : processed_records[i].row = Label(k)

RowErrors(k) == {i \in 1..Len(errors) : errors[i].row = Label(k)}

\* The row loop ran to its end.
LoopDone == pc \in {"commit", "audit", "return"} \/ (pc = "done" /\ raised \in {"none", "StorageError"})

\* C1: whenever process_file returns an ImportResult, records_imported plus
\* the number of errors equals the number of rows that are not fully empty.
C1_CountsAddUp ==
    Returned => result.records_imported + Len(result.errors) = Cardinality(RemainingRows)

C1_Witness ==
    /\ Returned
    /\ result.records_imported >= 1
    /\ Len(result.errors) >= 1
    /\ Cardinality(RemainingRows) < Len(file.rows)

\* C2: fault isolation: every row of the frame is attempted whatever the
\* rows before it did; a row that does not build leaves exactly one RowError
\* and every buildable row, before or after a failed one, is staged.
C2_FaultIsolation ==
    /\ LoopDone => pos = Len(df) + 1
    /\ pc = "loop" =>
         \A k \in 1..Len(df) : k < pos =>
            /\ Buildable(k) => Staged(k) /\ RowErrors(k) = {}
            /\ ~Buildable(k) => ~Staged(k) /\ Cardinality(RowErrors(k)) = 1
    /\ LoopDone =>
         \A k \in 1..Len(df) :
            /\ Buildable(k) => Staged(k) /\ RowErrors(k) = {}
            /\ ~Buildable(k) => ~Staged(k) /\ Cardinality(RowErrors(k)) = 1
    /\ pc = "commit" =>
         \A k \in 1..Len(df) : Buildable(k) => \E i \in 1..Len(session) : session[i].row = Label(k)

C2_Witness ==
    /\ pc = "commit"
    /\ \E i, j, k \in 1..Len(df) :
         /\ i < j /\ j < k
         /\ Staged(i) /\ ~Buildable(j) /\ RowErrors(j) # {} /\ Staged(k)

\* C3: a row that produced a RowError has no record in the session and none
\* among the persisted records, in every state.
C3_FailedRowNeverStored ==
    \A i \in 1..Len(errors) :
        /\ \A j \in 1..Len(session) : session[j].row # errors[i].row
        /\ \A r \in db : r.row # errors[i].row

C3_Witness ==
    /\ pc = "done"
    /\ errors # <<>>
    /\ Imported # {}

\* C4: whenever process_file returns an ImportResult, records_imported is
\* the number of records of this import that are persisted, and those are
\* exactly the records the loop staged.
C4_ImportedCountIsPersisted ==
    Returned =>
        /\ result.records_imported = Cardinality(Imported)
        /\ Imported = Range(processed_records)

C4_Witness ==
    /\ Returned
    /\ result.records_imported >= 2
    /\ Cardinality(Imported) >= 2

\* C5: for every import that got past file parsing, exactly one audit entry
\* with action FILE_IMPORT is persisted when process_file has ended.
C5_ExactlyOneAudit ==
    (pc = "done" /\ file.readable) =>
        Cardinality({i \in 1..Len(audits) : audits[i].action = "FILE_IMPORT"}) = 1

\* C6: when the batch commit fails, nothing is imported and the audit
\* emitter is still invoked.
C6_AuditAfterFailedCommit ==
    (pc = "done" /\ raised = "StorageError") =>
        /\ ~Returned
        /\ Imported = {}
        /\ auditCalls >= 1

\* C7: the batch commit is atomic: the persisted records of the import are
\* all the staged ones or none; a failed commit propagates the error, rolls
\* the session back, returns no ImportResult and persists no row.
C7_CommitAtomic ==
    /\ Imported = {} \/ Imported = Range(processed_records)
    /\ (pc = "done" /\ processed_records # <<>>) =>
         \/ /\ Imported = Range(processed_records)
            /\ Cardinality(Imported) = Len(processed_records)
            /\ raised = "none"
            /\ Returned
         \/ /\ Imported = {}
            /\ raised = "StorageError"
            /\ session = <<>>
            /\ ~Returned

C7_Witness ==
    /\ pc = "done"
    /\ raised = "StorageError"
    /\ Len(processed_records) >= 2
    /\ Imported = {}
    /\ ~Returned

\* C8: once the row loop and the batch commit completed, process_file
\* returns the ImportResult fixed by the staged records and the errors,
\* whether the audit write succeeded or raised; nothing is propagated.
C8_AuditFailureSwallowed ==
    (pc = "done" /\ auditCalls >= 1) =>
        /\ raised = "none"
        /\ Returned
        /\ result.records_imported = Len(processed_records)
        /\ result.errors = errors
        /\ result.status = IF errors = <<>> THEN "completed" ELSE "completed_with_errors"

C8_Witness ==
    /\ pc = "done"
    /\ auditCalls = 1
    /\ audits = <<>>
    /\ Returned
    /\ result.records_imported >= 1

\* C9 (as claimed): when reading the file fails, process_file returns an
\* ImportResult whose status is "failed" and propagates nothing.
C9_ReadFailureReturnsFailed ==
    (pc = "done" /\ ~file.readable) =>
        /\ Returned
        /\ result.status = "failed"
        /\ raised = "none"

\* C9 (amended): when reading the file fails, process_file ends at once by
\* rolling the session back and propagating the exception; it returns no
\* ImportResult, and no returned ImportResult ever has status "failed".
C9_ReadFailurePropagates ==
    /\ (pc = "done" /\ ~file.readable) =>
         /\ ~Returned
         /\ raised = "FormatError"
         /\ session = <<>>
    /\ ~file.readable => pc \in {"read", "done"}
    /\ Returned => result.status \in {"completed", "completed_with_errors"}

C9_Witness ==
    /\ pc = "done"
    /\ ~file.readable
    /\ raised = "FormatError"

\* C10: an unreadable file fails before row processing: no row is built,
\* nothing is staged, and the import persists no record and no audit entry.
C10_UnreadableFileNoEffects ==
    ~file.readable =>
        /\ pos = 0
        /\ df = <<>>
        /\ processed_records = <<>>
        /\ errors = <<>>
        /\ session = <<>>
        /\ Imported = {}
        /\ db \subseteq {ExistingRecord}
        /\ audits = <<>>
        /\ auditCalls = 0

C10_Witness ==
    /\ pc = "done"
    /\ ~file.readable
    /\ db = {ExistingRecord}
    /\ audits = <<>>

\* The seven entity tags of the import.
SevenEntities ==
    {"payments", "receipts", "policies", "claims", "customers", "agents", "audit_logs"}

\* C11: a tag outside the seven entities is fatal before any row: no row is
\* built, nothing is staged or persisted, no audit entry is written, and
\* the error is propagated to the caller.
C11_UnsupportedTypeFatal ==
    (file.readable /\ data_type \notin SevenEntities) =>
        /\ pos = 0
        /\ processed_records = <<>>
        /\ errors = <<>>
        /\ session = <<>>
        /\ Imported = {}
        /\ commitCalls = 0
        /\ auditCalls = 0
        /\ pc \in {"read", "resolve", "done"}
        /\ pc = "done" => raised = "ValueError" /\ ~Returned

C11_Witness ==
    /\ pc = "done"
    /\ file.readable
    /\ data_type \notin SevenEntities
    /\ Len(df) >= 2
    /\ raised = "ValueError"

\* C12: a returned ImportResult has status "completed" exactly when its
\* errors list is empty and "completed_with_errors" otherwise, whatever the
\* number of staged records.
C12_StatusFollowsErrors ==
    Returned =>
        /\ result.status = "completed" <=> result.errors = <<>>
        /\ result.status = "completed_with_errors" <=> result.errors # <<>>

C12_Witness ==
    /\ Returned
    /\ result.status = "completed_with_errors"
    /\ result.records_imported >= 1

\* An import with at least one row, all of whose rows fail to build.
AllRowsFail ==
    /\ pc = "done"
    /\ file.readable
    /\ data_type \in SevenEntities
    /\ Len(df) >= 1
    /\ \A k \in 1..Len(df) : ~Buildable(k)

\* C13 (as claimed): an import in which every row fails returns
\* "completed_with_errors" with records_imported = 0, makes no batch commit
\* and persists exactly one audit entry.
C13_AllFailOneAuditPersisted ==
    AllRowsFail =>
        /\ Returned
        /\ result.status = "completed_with_errors"
        /\ result.records_imported = 0
        /\ commitCalls = 0
        /\ Len(audits) = 1

\* C13 (amended): such an import returns "completed_with_errors" with
\* records_imported = 0, makes no batch commit and makes exactly one audit
\* write; one audit entry is persisted unless that write raises, and then
\* none is.
C13_AllFailOneAuditAttempt ==
    AllRowsFail =>
        /\ Returned
        /\ result.status = "completed_with_errors"
        /\ result.records_imported = 0
        /\ Len(result.errors) = Len(df)
        /\ commitCalls = 0
        /\ Imported = {}
        /\ auditCalls = 1
        /\ ~auditRaised => Len(audits) = 1
        /\ auditRaised => audits = <<>>

C13_Witness ==
    /\ AllRowsFail
    /\ Len(df) >= 2
    /\ auditRaised
    /\ Returned

\* Rows of the spreadsheet (1-based positions as read) that are not fully
\* empty and do not build.
BuildableRaw(r) ==
    \A u \in UuidPool : _prepare_record_data(FillNa(r), data_type, 0, u).ok

FailedInFile == {n \in RemainingRows : ~BuildableRaw(file.rows[n])}

\* Positions, in the frame the loop iterates, of the rows that do not build.
FailedInFrame == {k \in 1..Len(df) : ~Buildable(k)}

\* C14 (as claimed): the i-th RowError cites the 1-based position, in the
\* sequence of rows remaining after normalization, of the i-th failed row.
C14_IndexIsPositionInFrame ==
    LoopDone =>
        \A i \in 1..Len(errors) :
            /\ errors[i].row \in FailedInFrame
            /\ Cardinality({k \in FailedInFrame : k < errors[i].row}) = i - 1

\* C14 (amended): the i-th RowError cites the 1-based position of the i-th
\* failed row among the data rows of the file as read, fully empty rows
\* counted.
C14_IndexIsPositionInFile ==
    LoopDone =>
        /\ Len(errors) = Cardinality(FailedInFile)
        /\ \A i \in 1..Len(errors) :
            /\ errors[i].row \in FailedInFile
            /\ Cardinality({n \in FailedInFile : n < errors[i].row}) = i - 1

C14_Witness ==
    /\ LoopDone
    /\ \E i \in 1..Len(errors) :
         \E n \in 1..Len(file.rows) : n < errors[i].row /\ n \notin RemainingRows

\* C20: every audit entry an import writes has action FILE_IMPORT, the
\* request's tag as resource type, and severity/status info/success exactly
\* when the import has no error and warning/warning otherwise; its error
\* count is the length of the returned errors list.
C20_AuditEntryFields ==
    \A i \in 1..Len(audits) :
        /\ audits[i].action = "FILE_IMPORT"
        /\ audits[i].resource_type = data_type
        /\ audits[i].error_count = Len(errors)
        /\ audits[i].records_imported = Len(processed_records)
        /\ Len(errors) = 0 => audits[i].severity = "info" /\ audits[i].status = "success"
        /\ Len(errors) # 0 => audits[i].severity = "warning" /\ audits[i].status = "warning"
        /\ Returned => audits[i].error_count = Len(result.errors)

C20_Witness ==
    /\ Returned
    /\ Len(audits) = 1
    /\ audits[1].severity = "warning"
    /\ audits[1].error_count >= 1
    /\ result.records_imported >= 1

\* The cell a staged record's identifier was read from, if there was one.
HasIdCell(r) == "id" \in file.cols /\ file.rows[r.row]["id"] # NaN

SynthPrefix ==
    [payments |-> "PAY", receipts |-> "RCP", policies |-> "POL", claims |-> "CLM",
     customers |-> "CUST", agents |-> "AGT", audit_logs |-> "LOG"]

\* "<PREFIX>-<8 uppercase hex digits>"
SynthPattern == {SynthPrefix[data_type] \o "-" \o h : h \in {"0A1B2C3D", "9F8E7D6C"}}

\* str.strip() on the identifier cells.
Strip(cell) == IF cell = " A " THEN "A" ELSE cell

\* C15: every staged record has a non-empty business identifier, also when
\* the identifier cell is empty or the identifier column is missing.
C15_IdentifierNonEmpty ==
    \A i \in 1..Len(processed_records) : processed_records[i].id # ""

\* C16: the identifier of every record built from a row without an
\* identifier matches the entity's "<PREFIX>-<8 hex digits>" pattern, and
\* two such rows never get the same identifier.
C16_SynthesizedPatternNoCollision ==
    \A i \in 1..Len(processed_records) :
        ~HasIdCell(processed_records[i]) =>
            /\ processed_records[i].id \in SynthPattern
            /\ \A j \in 1..Len(processed_records) :
                 (j # i /\ ~HasIdCell(processed_records[j])) =>
                     processed_records[j].id # processed_records[i].id

\* C17 (as claimed): the identifier of a record built from a row with a
\* non-empty identifier cell is the cell's text with surrounding blanks
\* removed.
C17_IdentifierIsTrimmed ==
    \A i \in 1..Len(processed_records) :
        HasIdCell(processed_records[i]) =>
            processed_records[i].id = Strip(file.rows[processed_records[i].row]["id"])

\* C17 (amended): the identifier of such a record is the cell's text as it
\* was read, surrounding blanks kept.
C17_IdentifierIsCellText ==
    \A i \in 1..Len(processed_records) :
        HasIdCell(processed_records[i]) =>
            processed_records[i].id = file.rows[processed_records[i].row]["id"]

C17_Witness ==
    \E i \in 1..Len(processed_records) :
        /\ HasIdCell(processed_records[i])
        /\ processed_records[i].id = " A "

RequiredNumericEntities == {"payments", "receipts", "policies", "claims", "agents"}
OptionalNumericEntities == {"customers"}

NumAbsent(row) == "num" \notin DOMAIN row \/ row["num"] = ""
DateBuilds(row) == "date" \notin DOMAIN row \/ row["date"] \in {"", "2024-01-01"}
StagedWithNum(k, v) ==
    \E i \in 1..Len(processed_records) :
        processed_records[i].row = Label(k) /\ processed_records[i].num = v

\* C19: for every attempted row, an absent required numeric (missing column
\* or empty cell) yields 0 and the row is built, an absent optional numeric
\* yields null, and non-numeric text makes the row a RowError.
C19_NumericCoercion ==
    \A k \in 1..Len(df) : (pc = "loop" /\ k < pos) \/ pc = "commit" =>
        /\ (data_type \in RequiredNumericEntities /\ NumAbsent(df[k].row) /\ DateBuilds(df[k].row))
              => StagedWithNum(k, "0")
        /\ (data_type \in OptionalNumericEntities /\ NumAbsent(df[k].row) /\ DateBuilds(df[k].row))
              => StagedWithNum(k, "None")
        /\ (data_type \in RequiredNumericEntities \cup OptionalNumericEntities
              /\ "num" \in DOMAIN df[k].row /\ df[k].row["num"] = "abc")
              => ~Staged(k) /\ RowErrors(k) # {}

\* The records that were persisted before the import.
Before == {r \in db : r.row = 0}

\* The i-th staged record shares its identifier with no other staged record
\* and with no record persisted before the import.
CleanRecord(i) ==
    /\ \A j \in 1..Len(processed_records) :
         j # i => processed_records[j].id # processed_records[i].id
    /\ \A r \in Before : r.id # processed_records[i].id

\* The import ended because the unique index rejected the batch.
RejectedByIndex ==
    /\ pc = "done"
    /\ raised = "StorageError"
    /\ UniqueViolation(Before, processed_records)

\* C23: the outcome of a row depends on that row alone: a row builds or
\* fails whatever the other rows are, and a built row whose own identifier
\* clashes with nothing is persisted also when another row of the batch is
\* rejected by storage at commit time (the batch that has an empty row in
\* place of the rejected one persists it).
C23_RowOutcomeIndependent ==
    /\ LoopDone =>
         \A k \in 1..Len(df) : Buildable(k) <=> Staged(k)
    /\ RejectedByIndex =>
         \A i \in 1..Len(processed_records) :
            CleanRecord(i) => processed_records[i] \in db

\* C24: the frame holds exactly the rows of the file that are not fully
\* empty, in file order, each with a value for every column of the file:
\* the cell as read, or "" where the cell was missing.
C24_NormalizationExact ==
    (file.readable /\ pc # "read") =>
        /\ {Label(k) : k \in 1..Len(df)} = RemainingRows
        /\ Len(df) = Cardinality(RemainingRows)
        /\ \A k \in 1..Len(df) :
             /\ k < Len(df) => df[k].index < df[k + 1].index
             /\ DOMAIN df[k].row = file.cols
             /\ \A c \in file.cols :
                  /\ df[k].row[c] # NaN
                  /\ df[k].row[c] =
                       IF file.rows[Label(k)][c] = NaN THEN ""
                       ELSE file.rows[Label(k)][c]

C24_Witness ==
    /\ pc = "resolve"
    /\ Len(file.rows) = 3
    /\ Len(df) = 2
    /\ AllEmpty(file.rows[2])
    /\ \E c \in file.cols : df[2].row[c] = ""

\* C25: nothing of an import is persisted while its row loop runs or before
\* the batch commit: the import's persisted records are none until the loop
\* attempted every row, and all staged ones after the one commit.
C25_NothingPersistedBeforeLoopEnd ==
    /\ pc \in {"read", "resolve", "loop", "commit"} => Imported = {}
    /\ Imported # {} =>
         /\ pos = Len(df) + 1
         /\ Imported = Range(processed_records)
         /\ commitCalls = 1
    /\ commitCalls <= 1

C25_Witness ==
    /\ pc = "audit"
    /\ Cardinality(Imported) >= 2
    /\ errors # <<>>
    /\ commitCalls = 1

\* C26: the audit write finds nothing pending in the session, so its commit
\* persists the audit entry alone; when it raises, the records of the batch
\* commit stay persisted, and they are the records counted in
\* records_imported.
C26_AuditOwnTransaction ==
    /\ pc = "audit" => session = <<>>
    /\ (pc \in {"audit", "return"} \/ auditCalls >= 1) =>
         /\ Imported = Range(processed_records)
         /\ Cardinality(Imported) = Len(processed_records)
    /\ (Returned /\ auditRaised) =>
         /\ audits = <<>>
         /\ result.records_imported = Cardinality(Imported)

C26_Witness ==
    /\ Returned
    /\ auditRaised
    /\ Cardinality(Imported) >= 2
    /\ audits = <<>>

\* An import whose file parses and has no row left after normalization.
EmptyImport ==
    /\ pc = "done"
    /\ file.readable
    /\ data_type \in SevenEntities
    /\ df = <<>>

\* C27 (as claimed): an import with no row left after normalization returns
\* 0 records, no error and "completed", makes no batch commit and persists
\* one audit entry with severity "info" and status "success".
C27_EmptyImportOneAuditPersisted ==
    EmptyImport =>
        /\ Returned
        /\ result = [records_imported |-> 0, errors |-> <<>>, status |-> "completed"]
        /\ commitCalls = 0
        /\ Len(audits) = 1
        /\ audits[1].severity = "info"
        /\ audits[1].status = "success"

\* C27 (amended): such an import returns 0 records, no error and
\* "completed", makes no batch commit and makes exactly one audit write, of
\* an entry with severity "info" and status "success"; the entry is
\* persisted unless that write raises, and then none is.
C27_EmptyImportOneAuditAttempt ==
    EmptyImport =>
        /\ Returned
        /\ result = [records_imported |-> 0, errors |-> <<>>, status |-> "completed"]
        /\ commitCalls = 0
        /\ Imported = {}
        /\ auditCalls = 1
        /\ ~auditRaised =>
             /\ Len(audits) = 1
             /\ audits[1].severity = "info"
             /\ audits[1].status = "success"
             /\ audits[1].records_imported = 0
        /\ auditRaised => audits = <<>>

C27_Witness ==
    /\ EmptyImport
    /\ Len(file.rows) >= 2
    /\ Len(audits) = 1
    /\ Returned

\* The uploads whose import has read its file_path.
ImportsThatRead == {q \in Requests : uploads[q].task \in {"running", "finished"}}

\* C21: the import scheduled for an upload works on the bytes of that
\* upload, whatever the other upload is: whenever an import finds a file at
\* its path, the file holds what its own request uploaded.
C21_ImportReadsOwnBytes ==
    \A q \in ImportsThatRead :
        uploads[q].read.found => uploads[q].read.content = uploads[q].content

\* The response of an upload that was accepted.
Processing == [code |-> "200", status |-> "processing", records_imported |-> 0]

C28_TypeTablesAgree ==
    /\ allowed_types \subseteq model_mapping
    /\ \A dt \in allowed_types :
         _prepare_record_data(SheetTwo.rows[1], dt, 0, "0A1B2C3D").err
            # "Unsupported data type"
    /\ \A q \in Requests :
         uploads[q].pc \in {"saved", "scheduled", "responded"} =>
            uploads[q].data_type \in model_mapping
    /\ pc \notin {"idle"} => data_type \in model_mapping
    /\ raised # "ValueError"
    /\ \A i \in 1..Len(errors) : errors[i].msg # "Unsupported data type"
    /\ \A q \in Requests : uploads[q].outcome.raised # "ValueError"

C28_Witness ==
    /\ pc = "commit"
    /\ data_type = "audit_logs"
    /\ Len(df) = 2
    /\ Len(processed_records) = 2

\* C29: the file an upload saved is what its import finds at the path: it
\* was neither removed nor replaced between scheduling and reading.
C29_FilePresentAtRead ==
    \A q \in ImportsThatRead :
        uploads[q].read = Found(uploads[q].content)

\* No two persisted payments share a payment_id.
IdentifiersUnique == \A r1, r2 \in db : r1.id = r2.id => r1 = r2

\* A create request that finds its payment_id persisted ends rejected, with
\* the table as it was.
CreateOfExistingRejected ==
    \A c \in CrudRequests :
        (/\ crud[c].op = "create"
         /\ crud[c].pc \in {"received", "added"}
         /\ crud'[c].pc # crud[c].pc
         /\ \E r \in db : r.id = crud[c].payment_id)
            => crud'[c].pc \in {"rejected", "failed"} /\ db' = db

\* A batch commit on a batch with an identifier that is persisted, or that
\* occurs twice in the batch, persists none of its rows.
DuplicateBatchPersistsNothing ==
    (pc = "commit" /\ UniqueViolation(db, session)) =>
        \A i \in 1..Len(session) : session[i] \notin db'

\* C30: in every state no two persisted records of the table share a
\* business identifier; a create request for a persisted identifier is
\* rejected and leaves the table unchanged; an import whose batch holds an
\* identifier that is persisted, or holds one twice, persists no row.
C30_IdentifiersStayUnique ==
    /\ []IdentifiersUnique
    /\ [][CreateOfExistingRejected /\ DuplicateBatchPersistsNothing]_vars

C30_Witness ==
    /\ pc = "done"
    /\ imports = 2
    /\ raised = "StorageError"
    /\ UniqueViolation(Before, processed_records)
    /\ Cardinality(db) = 2
    /\ \E c \in CrudRequests : crud[c].pc = "rejected" /\ crud[c].op = "create"

====
